---- MODULE Spec2Model ----
(***************************************************************************)
(* The reconciliation engine of pygui (src/pygui/__init__.py): the fiber   *)
(* arena, the time-sliced work loop, hooks with their watchers, and the    *)
(* commit of effects to the host tree.                                     *)
(*                                                                         *)
(* Python dicts that are shared by reference (fibers, host objects, the    *)
(* reactive state of a hook) live in arenas, sequences addressed by index; *)
(* a reference is an index and None is 0.  A props dict is a function over *)
(* PropNames whose absent entries hold NoVal.                              *)
(*                                                                         *)
(* The template compiler (src/collagraph/cgx/cgx.py) is modelled by the    *)
(* name lookup of compiled expressions and by the children a compiled      *)
(* template node renders under its control flow directives.                *)
(***************************************************************************)
EXTENDS Integers, Sequences, FiniteSets, TLC

VARIABLES
    fibers,             \* arena of fiber dicts
    doms,               \* arena of host objects (the host tree)
    states,             \* arena of reactive hook states
    watchers,           \* watchers[s]: watch() calls made on state s
    next_unit_of_work,  \* PyGui.next_unit_of_work
    current_root,       \* PyGui.current_root
    wip_root,           \* PyGui.wip_root
    deletions,          \* PyGui.deletions
    wip_fiber,          \* PyGui.wip_fiber
    hook_index,         \* PyGui.hook_index
    qt_timer,           \* TRUE while the single-shot timer is started
    render_callback,    \* PyGui.render_callback
    calls,              \* Renderer Port calls of the latest commit, in order
    processed,          \* fibers perform_unit_of_work has run on
    requests,           \* render calls and state changes made so far
    expired,            \* the latest work_loop was run past its deadline
    error,              \* exception raised by the latest handler, "" if none
    fired,              \* calls of render_callback since the latest render call
    connections,        \* slots connected to the timeout signal of the timer
    host_props,         \* a props dict host code holds and builds elements from
    built,              \* the create_element calls made with host_props
    lookup_cache,       \* the cache dict of _lookup of the loaded template
    looked_up,          \* the latest _lookup call: its name and where the
                        \* component and its module hold that name
    template,           \* the directives of the children of a template node
    rendering           \* the latest render of template, <<>> before it

vars == <<fibers, doms, states, watchers, next_unit_of_work, current_root,
          wip_root, deletions, wip_fiber, hook_index, qt_timer,
          render_callback, calls, processed, requests, expired, error,
          fired, connections, host_props, built, lookup_cache, looked_up,
          template, rendering>>

----------------------------------------------------------------------------
(* Bounds *)

MaxRequests == 3
MaxBudget == 2
MaxBuilt == 2
MaxNodes == 3

----------------------------------------------------------------------------
(* Values *)

None == 0
NoVal == 0 - 1

PropOrder == <<"key", "content", "count", "on_bump">>
PropNames == {PropOrder[i] : i \in 1..Len(PropOrder)}

\* update_dom.is_event: key.startswith("on")
is_event(key) == key \in {"on_bump"}

\* update_dom.is_property
is_property(key) == ~is_event(key)

\* a dict literal {"key": k, "content": c, "count": n, "on_bump": h};
\* NoVal leaves an entry out
Props(k, c, n, h) ==
    [p \in PropNames |-> IF p = "key" THEN k
                         ELSE IF p = "content" THEN c
                         ELSE IF p = "count" THEN n ELSE h]

EmptyProps == Props(NoVal, NoVal, NoVal, NoVal)

RootType == "#root"
ComponentTypes == {"Counter", "Stepper", "Faulty"}

\* class VNode
VNode(type, props, children, key) ==
    [type |-> type, props |-> props, children |-> children, key |-> key]

\* create_element, line 47: what props.pop("key") leaves of the dict that was
\* passed in
popped(props) == [props EXCEPT !["key"] = NoVal]

\* a create_element that reads the key and leaves it among the props
key_left_in_props(type, props, children) ==
    VNode(type, props, children,
          IF props["key"] # NoVal THEN props["key"] ELSE None)

\* create_element: the key is popped out of props into the node's key
create_element(type, props, children) ==
    LET key == IF props["key"] # NoVal THEN props["key"] ELSE None
    IN VNode(type, [props EXCEPT !["key"] = NoVal], children, key)

\* the event name update_dom derives from a prop name: name.lower()[2:]
event_type(name) == IF name = "on_bump" THEN "_bump" ELSE name

----------------------------------------------------------------------------
(* Fibers *)

\* a fiber dict; keys the code leaves out read as None through dict.get
Fiber(type, props, children, dom, parent, alternate, effect_tag) ==
    [type |-> type, props |-> props, children |-> children, dom |-> dom,
     parent |-> parent, child |-> None, sibling |-> None,
     alternate |-> alternate, effect_tag |-> effect_tag, hooks |-> <<>>]

\* a root dict that forgets the committed tree
detached_root(dom, props, children, alternate) ==
    [type |-> RootType, props |-> props, children |-> children, dom |-> dom,
     parent |-> None, child |-> None, sibling |-> None, alternate |-> None,
     effect_tag |-> "NONE", hooks |-> <<>>]

\* the root dict built by render and by state_updated
RootFiber(dom, props, children, alternate) ==
    Fiber(RootType, props, children, dom, None, alternate, "NONE")

\* a matched fiber that does not take over the host object of the old fiber
update_without_host(fs, old_fiber, element, wip) ==
    Fiber(fs[old_fiber].type, element.props, element.children,
          None, wip, old_fiber, "UPDATE")

\* reconcile_children, lines 208-216: the fiber of a matched element
UpdateFiber(fs, old_fiber, element, wip) ==
    Fiber(fs[old_fiber].type, element.props, element.children,
          fs[old_fiber].dom, wip, old_fiber, "UPDATE")

\* an unmatched fiber that drops the children of its element
placement_without_children(element, wip) ==
    Fiber(element.type, element.props, <<>>, None, wip, None, "PLACEMENT")

\* reconcile_children, lines 219-227: the fiber of an unmatched element
PlacementFiber(element, wip) ==
    Fiber(element.type, element.props, element.children, None, wip, None,
          "PLACEMENT")

\* a comparison that matches whatever stands at the same position
position_match(fs, old_fiber, elements, index) ==
    /\ old_fiber # None
    /\ index < Len(elements)

\* reconcile_children, line 204
same_type(fs, old_fiber, elements, index) ==
    /\ old_fiber # None
    /\ index < Len(elements)
    /\ elements[index + 1].type = fs[old_fiber].type

\* one turn of the while loop of reconcile_children on the machine state m
RECURSIVE reconcile_loop(_, _, _, _, _, _)
reconcile_loop(m, wip, elements, index, old_fiber, prev_sibling) ==
    IF ~(index < Len(elements) \/ old_fiber # None) THEN m
    ELSE
      LET has_el == index < Len(elements)
          same == same_type(m.fibers, old_fiber, elements, index)
          new_id == IF has_el THEN Len(m.fibers) + 1 ELSE None
          fs1 == IF same
                 THEN Append(m.fibers,
                        UpdateFiber(m.fibers, old_fiber, elements[index + 1], wip))
                 ELSE IF has_el
                 THEN Append(m.fibers, PlacementFiber(elements[index + 1], wip))
                 ELSE m.fibers
          del == old_fiber # None /\ ~same
          fs2 == IF del
                 THEN [fs1 EXCEPT ![old_fiber].effect_tag = "DELETION"]
                 ELSE fs1
          dels == IF del THEN Append(m.deletions, old_fiber) ELSE m.deletions
          next_old == IF old_fiber # None THEN m.fibers[old_fiber].sibling
                      ELSE None
          fs3 == IF index = 0 THEN [fs2 EXCEPT ![wip].child = new_id]
                 ELSE IF has_el
                 THEN [fs2 EXCEPT ![prev_sibling].sibling = new_id]
                 ELSE fs2
      IN reconcile_loop([m EXCEPT !.fibers = fs3, !.deletions = dels],
                        wip, elements, index + 1, next_old, new_id)

\* PyGui.reconcile_children
reconcile_children(m, wip, elements) ==
    LET alt == m.fibers[wip].alternate
        old_fiber == IF alt # None THEN m.fibers[alt].child ELSE None
    IN reconcile_loop(m, wip, elements, 0, old_fiber, None)

----------------------------------------------------------------------------
(* The host tree and the Renderer Port *)

\* a host object: a pygfx WorldObject with its attributes and handlers
HostObject(type) ==
    [type |-> type, attrs |-> EmptyProps, handlers |-> {}, children |-> <<>>,
     parent |-> None]

Call(op, dom, parent, name, val) ==
    [op |-> op, dom |-> dom, parent |-> parent, name |-> name, val |-> val]

Without(seq, x) == SelectSeq(seq, LAMBDA y : y # x)

InSeq(seq, x) == \E i \in 1..Len(seq) : seq[i] = x

\* dom_parent.add(dom): a child is orphaned from its parent, then appended
HostAdd(ds, dom, parent) ==
    LET old == ds[dom].parent
        ds1 == IF old # None
               THEN [ds EXCEPT ![old].children = Without(@, dom)]
               ELSE ds
    IN [ds1 EXCEPT ![dom].parent = parent,
                   ![parent].children = Append(@, dom)]

\* dom_parent.remove(dom): removing what is no child changes nothing
HostRemove(ds, dom, parent) ==
    IF InSeq(ds[parent].children, dom)
    THEN [ds EXCEPT ![parent].children = Without(@, dom),
                    ![dom].parent = None]
    ELSE ds

\* the effect of one Renderer Port call on the host tree
ApplyCall(ds, c) ==
    CASE c.op = "add" -> HostAdd(ds, c.dom, c.parent)
      [] c.op = "remove" -> HostRemove(ds, c.dom, c.parent)
      [] c.op = "set_attribute" -> [ds EXCEPT ![c.dom].attrs[c.name] = c.val]
      [] c.op = "clear_attribute" -> [ds EXCEPT ![c.dom].attrs[c.name] = NoVal]
      [] c.op = "add_event_handler" ->
            [ds EXCEPT ![c.dom].handlers = @ \cup {<<event_type(c.name), c.val>>}]
      [] c.op = "remove_event_handler" ->
            [ds EXCEPT ![c.dom].handlers = @ \ {<<event_type(c.name), c.val>>}]

RECURSIVE ApplyCalls(_, _)
ApplyCalls(ds, cs) ==
    IF cs = <<>> THEN ds ELSE ApplyCalls(ApplyCall(ds, Head(cs)), Tail(cs))

\* one "for key, val in props.items()" loop of update_dom: the call op made
\* for each key of props among keys, in dict order
calls_for(keys, op, dom, props) ==
    LET f[i \in 0..Len(PropOrder)] ==
            IF i = 0 THEN <<>>
            ELSE IF PropOrder[i] \in keys
            THEN Append(f[i - 1],
                        Call(op, dom, None, PropOrder[i], props[PropOrder[i]]))
            ELSE f[i - 1]
    IN f[Len(PropOrder)]

\* the keys a props dict holds
keys_of(props) == {key \in PropNames : props[key] # NoVal}

\* a comparison that takes every value for new
always_new(val, other, key) == TRUE

\* update_dom.is_new(val, other, key): val != other.get(key)
is_new(val, other, key) == val # other[key]

\* update_dom, lines 292-299
remove_old_listeners(dom, prev_props, next_props) ==
    calls_for({name \in keys_of(prev_props) :
                  /\ is_event(name)
                  /\ ~(name \notin keys_of(next_props)
                       \/ ~is_new(prev_props[name], next_props, name))},
              "remove_event_handler", dom, prev_props)

\* update_dom, lines 302-311
remove_old_properties(dom, prev_props, next_props) ==
    calls_for({key \in keys_of(prev_props) :
                  /\ is_property(key)
                  /\ key \notin keys_of(next_props)},
              "clear_attribute", dom, prev_props)

\* update_dom, lines 314-322
set_properties(dom, prev_props, next_props) ==
    calls_for({key \in keys_of(next_props) :
                  /\ is_property(key)
                  /\ is_new(next_props[key], prev_props, key)},
              "set_attribute", dom, next_props)

\* update_dom, lines 325-332
add_listeners(dom, prev_props, next_props) ==
    calls_for({name \in keys_of(next_props) :
                  /\ is_event(name)
                  /\ is_new(prev_props[name], next_props, name)},
              "add_event_handler", dom, next_props)

\* an update_dom that adds the new listeners before it removes anything
listeners_added_first(dom, prev_props, next_props) ==
    add_listeners(dom, prev_props, next_props)
        \o remove_old_listeners(dom, prev_props, next_props)
        \o remove_old_properties(dom, prev_props, next_props)
        \o set_properties(dom, prev_props, next_props)

\* update_dom: the Renderer Port calls it makes, in order
update_dom(dom, prev_props, next_props) ==
    remove_old_listeners(dom, prev_props, next_props)
        \o remove_old_properties(dom, prev_props, next_props)
        \o set_properties(dom, prev_props, next_props)
        \o add_listeners(dom, prev_props, next_props)

\* a create_dom that puts the new host object under the first host object
\* of the arena, the container, as soon as it is made
created_in_place(ds, fiber) ==
    LET dom == Len(ds) + 1
    IN HostAdd(ApplyCalls(Append(ds, HostObject(fiber.type)),
                          update_dom(dom, EmptyProps, fiber.props)),
               dom, 1)

\* PyGui.create_dom: a new host object with the fiber's props applied
create_dom(ds, fiber) ==
    LET dom == Len(ds) + 1
    IN ApplyCalls(Append(ds, HostObject(fiber.type)),
                  update_dom(dom, EmptyProps, fiber.props))

----------------------------------------------------------------------------
(* Hooks and components *)

\* the engine and its heap, as one record the handlers transform
Machine ==
    [fibers |-> fibers, doms |-> doms, states |-> states,
     watchers |-> watchers, next_unit_of_work |-> next_unit_of_work,
     current_root |-> current_root, wip_root |-> wip_root,
     deletions |-> deletions, wip_fiber |-> wip_fiber,
     hook_index |-> hook_index, qt_timer |-> qt_timer,
     render_callback |-> render_callback, calls |-> calls,
     processed |-> processed, requests |-> requests,
     expired |-> expired, error |-> error, fired |-> fired,
     connections |-> connections]

\* a use_state that never finds an old hook
never_old_hook(m) == FALSE

\* use_state, lines 147-151: whether the alternate holds hooks to carry over
has_old_hook(m) ==
    LET alt == m.fibers[m.wip_fiber].alternate
    IN alt # None /\ m.fibers[alt].hooks # <<>>

\* PyGui.use_state: the hook shares the reactive state of the old hook at the
\* cursor or holds a new one, and a new watcher watches it.  No code appends
\* to a hook's queue, so the loop over the old queue applies nothing.
use_state(m, initial) ==
    LET wf == m.wip_fiber
        alt == m.fibers[wf].alternate
        old == has_old_hook(m)
        state == IF old THEN m.fibers[alt].hooks[m.hook_index + 1].state
                 ELSE Len(m.states) + 1
        hook == [state |-> state, queue |-> <<>>]
    IN [m EXCEPT !.states = IF old THEN @ ELSE Append(@, initial),
                 !.watchers = IF old THEN [@ EXCEPT ![state] = @ + 1]
                              ELSE Append(@, 1),
                 !.fibers[wf].hooks = Append(@, hook),
                 !.hook_index = @ + 1]

\* the value use_state returned to the component: the state of its last hook
hook_value(m) ==
    LET hooks == m.fibers[m.wip_fiber].hooks
    IN m.states[hooks[Len(hooks)].state]

\* the handler a Counter passes as on_bump
Bump == 1

\* the function component Counter: one use_state(0), rendered as a counter
\* element showing the count
Counter(m) ==
    create_element("counter", Props(NoVal, NoVal, hook_value(m), Bump), <<>>)

\* the value use_state returned for the n-th hook of the component
hook_value_at(m, n) == m.states[m.fibers[m.wip_fiber].hooks[n].state]

\* the function component Stepper: use_state(0) for its count and
\* use_state(1) for its step size, rendered as a counter element showing both
Stepper(m) ==
    create_element("counter",
                   Props(NoVal, hook_value_at(m, 2), hook_value_at(m, 1), Bump),
                   <<>>)

\* the initial values a component passes to its use_state calls, in call
\* order
hook_initials(type) ==
    IF type = "Counter" THEN <<0>>
    ELSE IF type = "Stepper" THEN <<0, 1>>
    ELSE <<>>

\* the use_state calls of one component invocation
RECURSIVE use_states(_, _)
use_states(m, initials) ==
    IF initials = <<>> THEN m
    ELSE use_states(use_state(m, Head(initials)), Tail(initials))

\* fiber["type"](fiber["props"]): the element the component returns
call_component(type, m) ==
    IF type = "Stepper" THEN Stepper(m) ELSE Counter(m)

\* PyGui.update_function_component; the call of a Faulty component raises,
\* which leaves the method before reconcile_children
update_function_component(m, fiber) ==
    LET type == m.fibers[fiber].type
        m1 == [m EXCEPT !.wip_fiber = fiber, !.hook_index = 0,
                        !.fibers[fiber].hooks = <<>>]
        m2 == use_states(m1, hook_initials(type))
    IN IF type = "Faulty" THEN [m1 EXCEPT !.error = "TypeError"]
       ELSE reconcile_children(m2, fiber, <<call_component(type, m2)>>)

\* PyGui.update_host_component
update_host_component(m, fiber) ==
    LET m1 == IF m.fibers[fiber].dom = None
              THEN [m EXCEPT !.doms = create_dom(m.doms, m.fibers[fiber]),
                             !.fibers[fiber].dom = Len(m.doms) + 1]
              ELSE m
    IN reconcile_children(m1, fiber, m1.fibers[fiber].children)

\* a walk that looks at the fiber's own sibling and never goes upward
own_sibling(fs, next_fiber) ==
    IF next_fiber = None THEN None ELSE fs[next_fiber].sibling

\* perform_unit_of_work, lines 138-142: the nearest sibling going upward
RECURSIVE next_sibling(_, _)
next_sibling(fs, next_fiber) ==
    IF next_fiber = None THEN None
    ELSE IF fs[next_fiber].sibling # None THEN fs[next_fiber].sibling
    ELSE next_sibling(fs, fs[next_fiber].parent)

\* PyGui.perform_unit_of_work, with the assignment of its result to
\* next_unit_of_work; an exception of the unit leaves before the assignment
perform_unit_of_work(m, fiber) ==
    LET m1 == IF m.fibers[fiber].type \in ComponentTypes
              THEN update_function_component(m, fiber)
              ELSE update_host_component(m, fiber)
        next == IF m1.fibers[fiber].child # None THEN m1.fibers[fiber].child
                ELSE next_sibling(m1.fibers, fiber)
    IN IF m1.error # "" THEN m1
       ELSE [m1 EXCEPT !.next_unit_of_work = next,
                       !.processed = @ \cup {fiber}]

----------------------------------------------------------------------------
(* Commit *)

\* a search that always ends at the root fiber made last, the container's
container_fiber(fs, fiber) ==
    CHOOSE i \in 1..Len(fs) :
       /\ fs[i].type = RootType
       /\ \A j \in (i + 1)..Len(fs) : fs[j].type # RootType

\* commit_work, lines 263-267: the nearest ancestor fiber holding a host object
RECURSIVE dom_parent_fiber(_, _)
dom_parent_fiber(fs, fiber) ==
    IF fs[fiber].dom # None THEN fiber
    ELSE dom_parent_fiber(fs, fs[fiber].parent)

\* a deletion that removes nothing
deletion_skipped(fs, fiber, dom_parent) == <<>>

\* PyGui.commit_deletion
RECURSIVE commit_deletion(_, _, _)
commit_deletion(fs, fiber, dom_parent) ==
    IF fs[fiber].dom # None
    THEN <<Call("remove", fs[fiber].dom, dom_parent, "", NoVal)>>
    ELSE commit_deletion(fs, fs[fiber].child, dom_parent)

\* commit_work, lines 269-275: the calls made for the fiber itself
commit_effect(fs, fiber) ==
    LET f == fs[fiber]
        dom_parent == fs[dom_parent_fiber(fs, f.parent)].dom
    IN IF f.effect_tag = "PLACEMENT" /\ f.dom # None
       THEN <<Call("add", f.dom, dom_parent, "", NoVal)>>
       ELSE IF f.effect_tag = "UPDATE" /\ f.dom # None
       THEN update_dom(f.dom, fs[f.alternate].props, f.props)
       ELSE IF f.effect_tag = "DELETION"
       THEN commit_deletion(fs, fiber, dom_parent)
       ELSE <<>>

\* PyGui.commit_work: the Renderer Port calls it makes, in order
RECURSIVE commit_work(_, _)
commit_work(fs, fiber) ==
    IF fiber = None THEN <<>>
    ELSE commit_effect(fs, fiber)
            \o commit_work(fs, fs[fiber].child)
            \o commit_work(fs, fs[fiber].sibling)

\* commit_root, lines 246-248
RECURSIVE commit_deletions(_, _)
commit_deletions(fs, dels) ==
    IF dels = <<>> THEN <<>>
    ELSE commit_work(fs, Head(dels)) \o commit_deletions(fs, Tail(dels))

\* PyGui.commit_root
commit_root(m) ==
    LET cs == commit_deletions(m.fibers, m.deletions)
                \o commit_work(m.fibers, m.fibers[m.wip_root].child)
    IN [m EXCEPT !.doms = ApplyCalls(@, cs),
                 !.calls = cs,
                 !.current_root = m.wip_root,
                 !.wip_root = None]

----------------------------------------------------------------------------
(* Scheduler *)

\* a request_idle_work that leaves the slots of earlier requests connected
still_connected(m) == m.connections

\* request_idle_work, lines 70-75: the slots connected to the timeout signal
\* before the new one is connected: a new timer has none, and
\* timeout.disconnect() drops every slot of an existing one
disconnected(m) == 0

\* PyGui.request_idle_work: the slot running work_loop is connected and the
\* single-shot timer is (re)started
request_idle_work(m) ==
    [m EXCEPT !.qt_timer = TRUE, !.connections = disconnected(m) + 1]

\* PyGui.render
render(m, element, container, callback) ==
    LET root == Len(m.fibers) + 1
    IN request_idle_work(
         [m EXCEPT !.fibers = Append(@, RootFiber(container, EmptyProps,
                                                  <<element>>, m.current_root)),
                   !.wip_root = root,
                   !.deletions = <<>>,
                   !.next_unit_of_work = root,
                   !.render_callback = callback,
                   !.fired = 0,
                   !.error = ""])

\* a watcher callback that does nothing
notification_dropped(m) == m

\* use_state.state_updated, the callback of every hook watcher: reading
\* current_root.get on None raises before anything is assigned
state_updated(m) ==
    IF m.current_root = None THEN [m EXCEPT !.error = "AttributeError"]
    ELSE
      LET cur == m.fibers[m.current_root]
          root == Len(m.fibers) + 1
      IN request_idle_work(
           [m EXCEPT !.fibers = Append(@, RootFiber(cur.dom, cur.props,
                                                    cur.children, m.current_root)),
                     !.wip_root = root,
                     !.next_unit_of_work = root,
                     !.deletions = <<>>,
                     !.error = ""])

\* a loop that reads the clock before it runs its first unit
slice_units_clock_first(budget) == budget

\* work_loop, lines 98-103: the units run before the loop yields, when the
\* clock lets budget units pass before the deadline is less than 1 ms away;
\* the first unit runs before the clock is read
slice_units(budget) == IF budget < 1 THEN 1 ELSE budget

\* work_loop, lines 99-103: the while loop
RECURSIVE run_units(_, _)
run_units(m, n) ==
    IF m.next_unit_of_work = None \/ n = 0 \/ m.error # "" THEN m
    ELSE run_units(perform_unit_of_work(m, m.next_unit_of_work), n - 1)

\* a work_loop committing whenever a generation is in flight
commit_when_in_flight(m) ==
    IF m.wip_root # None THEN commit_root(m) ELSE m

\* work_loop, lines 105-106
commit_when_done(m) ==
    IF m.next_unit_of_work = None /\ m.wip_root # None THEN commit_root(m)
    ELSE m

\* work_loop, lines 111-112: the callback of the render call is called
call_render_callback(m) ==
    IF m.render_callback # None THEN [m EXCEPT !.fired = @ + 1] ELSE m

\* PyGui.work_loop, run by the timer: the timer's shot is spent, the loop
\* runs, a finished generation is committed, unfinished work is rescheduled
\* and finished work reported; an exception of a unit leaves the loop and
\* the method
work_loop(m, budget) ==
    LET m1 == run_units([m EXCEPT !.qt_timer = FALSE,
                                  !.expired = (budget = 0), !.error = ""],
                        slice_units(budget))
        m2 == commit_when_done(m1)
    IN IF m1.error # "" THEN m1
       ELSE IF m2.next_unit_of_work # None THEN request_idle_work(m2)
       ELSE call_render_callback(m2)

\* work_loop, lines 99-103, on the machine the timer's firing finds
units_run(m, budget) ==
    run_units([m EXCEPT !.qt_timer = FALSE,
                        !.expired = (budget = 0), !.error = ""],
              slice_units(budget))

\* a commit_root that makes the generation current before it makes the calls
commit_root_current_first(m, n) ==
    LET cs == commit_deletions(m.fibers, m.deletions)
                \o commit_work(m.fibers, m.fibers[m.wip_root].child)
        made == SubSeq(cs, 1, n - 1)
    IN [m EXCEPT !.doms = ApplyCalls(@, made),
                 !.calls = made,
                 !.current_root = m.wip_root,
                 !.wip_root = None,
                 !.error = "RendererError"]

\* commit_root left by the exception its n-th Renderer Port call raises: the
\* calls before it have been made, lines 250-251 are not reached; nothing in
\* work_loop catches the exception, so lines 108-112 are not reached either
commit_root_raising(m, n) ==
    LET cs == commit_deletions(m.fibers, m.deletions)
                \o commit_work(m.fibers, m.fibers[m.wip_root].child)
        made == SubSeq(cs, 1, n - 1)
    IN [m EXCEPT !.doms = ApplyCalls(@, made),
                 !.calls = made,
                 !.error = "RendererError"]

\* work_loop, lines 105-106, on the machine m1 the while loop leaves: the
\* generation is finished and commit_root is called
reaches_commit(m1) ==
    /\ m1.error = ""
    /\ m1.next_unit_of_work = None
    /\ m1.wip_root # None

\* the number of Renderer Port calls of the commit this slice reaches
port_calls(m1) ==
    IF reaches_commit(m1)
    THEN Len(commit_deletions(m1.fibers, m1.deletions)
               \o commit_work(m1.fibers, m1.fibers[m1.wip_root].child))
    ELSE 0

----------------------------------------------------------------------------
(* The elements host code renders *)

Item(type, key) ==
    create_element(type, Props(key, key, NoVal, NoVal), <<>>)

Items(children) == create_element("items", EmptyProps, children)

ElemABC == Items(<<Item("item", 1), Item("item", 2), Item("item", 3)>>)
ElemA == Items(<<Item("item", 1)>>)
ElemXB == Items(<<Item("other", 1), Item("item", 2)>>)
ElemBA == Items(<<Item("item", 2), Item("item", 1)>>)
ElemCounter == create_element("Counter", EmptyProps, <<>>)
ElemStepper == create_element("Stepper", EmptyProps, <<>>)
ElemEmpty == Items(<<>>)
ElemAF == Items(<<Item("item", 1), create_element("Faulty", EmptyProps, <<>>)>>)

\* a widget element with up to two properties and a handler
Widget(content, count, on_bump) ==
    create_element("widget", Props(NoVal, content, count, on_bump), <<>>)

\* a list nested in a list, followed by an item
ElemNested ==
    Items(<<Items(<<Item("item", 1), Item("item", 2)>>), Item("item", 3)>>)

\* a component inside a list
ElemBoxed == Items(<<ElemCounter>>)

HostElements == {ElemABC, ElemA, ElemXB, ElemBA}
Elements == {ElemABC, ElemA, ElemCounter}
LiveElements == {ElemA, ElemCounter}
HookElements == {ElemStepper, ElemCounter}
FaultyElements == {ElemXB, ElemAF, ElemBA}
ListElements == {ElemABC, ElemEmpty}
PortElements == {ElemBA, ElemEmpty}
WidgetElements ==
    {Widget(1, 1, 1), Widget(1, 1, 2), Widget(NoVal, 2, 2),
     Widget(NoVal, 2, NoVal), Widget(NoVal, NoVal, NoVal)}

\* the host container passed to render
Container == 1

\* a completion callback passed to render
Done == 1

\* what host code passes as callback
Callbacks == {None, Done}

----------------------------------------------------------------------------
(* Templates: collagraph/cgx/cgx.py *)

\* the names the expressions of a template mention
TemplateNames == {"text", "stat", "count"}

\* where _lookup looks for a name, in its order: self.props, self.state,
\* the attributes of self, globals()
Places == <<"props", "state", "self", "globals">>

\* the exception a lookup method raises for a name its place does not hold:
\* self.props[name], self.state[name] and globals()[name] raise KeyError,
\* getattr(self, name) raises AttributeError
lookup_failure(method) ==
    IF method = "self" THEN "AttributeError" ELSE "KeyError"

\* _lookup, the if/elif chain: the method of the first place holding the
\* name, "" when no place holds it
lookup_method(found) ==
    IF \E i \in 1..Len(Places) : Places[i] \in found
    THEN Places[CHOOSE i \in 1..Len(Places) :
                  /\ Places[i] \in found
                  /\ \A j \in 1..(i - 1) : Places[j] \notin found]
    ELSE ""

\* _lookup(self, name, cache) for a component and module holding name in
\* the places found: a cached method is called whatever the component
\* holds; without one the method is chosen and cached and _lookup calls
\* itself, or NameError is raised; place is the place the returned value
\* was read from, "" when the call raises
lookup(cache, name, found) ==
    IF cache[name] # ""
    THEN [cache |-> cache,
          error |-> IF cache[name] \in found THEN ""
                    ELSE lookup_failure(cache[name]),
          place |-> IF cache[name] \in found THEN cache[name] ELSE ""]
    ELSE IF lookup_method(found) = ""
    THEN [cache |-> cache, error |-> "NameError", place |-> ""]
    ELSE [cache |-> [cache EXCEPT ![name] = lookup_method(found)],
          error |-> "",
          place |-> lookup_method(found)]

\* the control flow directives of template nodes, "" for a node without one
Directives == {"", "v-if", "v-else-if", "v-else"}

\* the children of a template node, as source code holds them: v-else-if and
\* v-else come directly after a v-if or a v-else-if
well_formed(nodes) ==
    \A i \in 1..Len(nodes) :
       nodes[i] \in {"v-else-if", "v-else"} =>
          i > 1 /\ nodes[i - 1] \in {"v-if", "v-else-if"}

\* the children lists of at most n nodes
RECURSIVE Templates(_)
Templates(n) ==
    IF n = 0 THEN {<<>>}
    ELSE Templates(n - 1)
            \cup {Append(nodes, directive) :
                    nodes \in {t \in Templates(n - 1) : Len(t) = n - 1},
                    directive \in Directives}

\* create_control_flow_ast, lines 411-415: the entry popped as else branch
else_statement(nodes, control_flow) ==
    IF Len(control_flow) > 1 /\ nodes[control_flow[Len(control_flow)]] = "v-else"
    THEN control_flow[Len(control_flow)]
    ELSE None

\* the value of the expression create_control_flow_ast builds for the
\* entries control_flow (positions of nodes), when the directive expressions
\* have the truth values given: the first entry is the if, a last v-else is
\* the final orelse, and every entry between is tested like an else-if,
\* whatever its directive; None when no branch is taken
control_flow_value(nodes, values, control_flow) ==
    LET last == else_statement(nodes, control_flow)
        tests == IF last # None
                 THEN SubSeq(control_flow, 1, Len(control_flow) - 1)
                 ELSE control_flow
    IN IF \E i \in 1..Len(tests) : values[tests[i]]
       THEN tests[CHOOSE i \in 1..Len(tests) :
                     /\ values[tests[i]]
                     /\ \A j \in 1..(i - 1) : ~values[tests[j]]]
       ELSE last

\* convert_node_to_args, the loop over node.children: the child values in
\* order, a child without directive flushing the pending control flow
\* entries before it, the pending entries flushed at the end
RECURSIVE children_args(_, _, _, _)
children_args(nodes, values, index, control_flow) ==
    LET flushed == IF control_flow = <<>> THEN <<>>
                   ELSE <<control_flow_value(nodes, values, control_flow)>>
    IN IF index > Len(nodes) THEN flushed
       ELSE IF nodes[index] # ""
       THEN children_args(nodes, values, index + 1,
                          Append(control_flow, index))
       ELSE flushed \o <<index>>
               \o children_args(nodes, values, index + 1, <<>>)

\* the children the compiled render function passes to create_element: the
\* child values that are not None
render_children(nodes, values) ==
    SelectSeq(children_args(nodes, values, 1, <<>>), LAMBDA c : c # None)

----------------------------------------------------------------------------
(* Actions *)

\* the dicts of host code no handler of the engine is passed
host_vars == <<host_props, built>>

\* the state of the template compiler, which the engine does not see
cgx_vars == <<lookup_cache, looked_up, template, rendering>>

\* the state of the engine but for the exception a handler raised
engine_vars ==
    <<fibers, doms, states, watchers, next_unit_of_work, current_root,
      wip_root, deletions, wip_fiber, hook_index, qt_timer, render_callback,
      calls, processed, requests, expired, fired, connections>>

Assign(m) ==
    /\ UNCHANGED <<host_vars, cgx_vars>>
    /\ fibers' = m.fibers
    /\ doms' = m.doms
    /\ states' = m.states
    /\ watchers' = m.watchers
    /\ next_unit_of_work' = m.next_unit_of_work
    /\ current_root' = m.current_root
    /\ wip_root' = m.wip_root
    /\ deletions' = m.deletions
    /\ wip_fiber' = m.wip_fiber
    /\ hook_index' = m.hook_index
    /\ qt_timer' = m.qt_timer
    /\ render_callback' = m.render_callback
    /\ calls' = m.calls
    /\ processed' = m.processed
    /\ requests' = m.requests
    /\ expired' = m.expired
    /\ error' = m.error
    /\ fired' = m.fired
    /\ connections' = m.connections

InitEngine ==
    /\ fibers = <<>>
    /\ doms = <<HostObject(RootType)>>
    /\ states = <<>>
    /\ watchers = <<>>
    /\ next_unit_of_work = None
    /\ current_root = None
    /\ wip_root = None
    /\ deletions = <<>>
    /\ wip_fiber = None
    /\ hook_index = None
    /\ qt_timer = FALSE
    /\ render_callback = None
    /\ calls = <<>>
    /\ processed = {}
    /\ requests = 0
    /\ expired = FALSE
    /\ error = ""
    /\ fired = 0
    /\ connections = 0

InitCgx ==
    /\ lookup_cache = [name \in TemplateNames |-> ""]
    /\ looked_up = [name |-> "", found |-> {}, place |-> ""]
    /\ template = <<>>
    /\ rendering = <<>>

Init ==
    /\ InitEngine
    /\ InitCgx
    /\ host_props = EmptyProps
    /\ built = <<>>

\* host code calls render(element, container, callback)
Render(element, callback) ==
    /\ requests < MaxRequests
    /\ Assign([render(Machine, element, Container, callback)
                  EXCEPT !.requests = @ + 1])

\* code holding the reactive state of a hook bumps it, and the watchers of
\* that state run state_updated
StateChange(state) ==
    /\ requests < MaxRequests
    /\ watchers[state] > 0
    /\ Assign([state_updated([Machine EXCEPT !.states[state] = @ + 1])
                  EXCEPT !.requests = @ + 1])

\* the timer fires and runs work_loop
WorkLoop(budget) ==
    /\ qt_timer
    /\ Assign(work_loop(Machine, budget))

RenderAny ==
    \E element \in Elements, callback \in Callbacks : Render(element, callback)

RenderHost == \E element \in HostElements : Render(element, None)

StateChangeAny == \E state \in 1..Len(states) : StateChange(state)

WorkLoopAny == \E budget \in 0..MaxBudget : WorkLoop(budget)

Next == RenderAny \/ StateChangeAny \/ WorkLoopAny

Spec == Init /\ [][Next]_vars

RenderHooks == \E element \in HookElements : Render(element, None)

NextHooks == RenderHooks \/ StateChangeAny \/ WorkLoopAny

SpecHooks == Init /\ [][NextHooks]_vars

RenderFaulty == \E element \in FaultyElements : Render(element, None)

NextFaulty == RenderFaulty \/ WorkLoopAny

SpecFaulty == Init /\ [][NextFaulty]_vars

RenderList == \E element \in ListElements : Render(element, None)

NextList == RenderList \/ WorkLoopAny

SpecList == Init /\ [][NextList]_vars

\* the timer fires, work_loop reaches the commit and the n-th Renderer Port
\* call of the commit raises
WorkLoopRaising(budget, n) ==
    /\ qt_timer
    /\ LET m1 == units_run(Machine, budget)
       IN /\ reaches_commit(m1)
          /\ n \in 1..port_calls(m1)
          /\ Assign(commit_root_raising(m1, n))

WorkLoopRaisingAny ==
    \E budget \in 0..MaxBudget :
        \E n \in 1..port_calls(units_run(Machine, budget)) :
            WorkLoopRaising(budget, n)

RenderPort == \E element \in PortElements : Render(element, Done)

NextPort == RenderPort \/ WorkLoopAny \/ WorkLoopRaisingAny

SpecPort == Init /\ [][NextPort]_vars

\* the props dicts host code holds at the start
HostProps == {Props(key, 1, NoVal, NoVal) : key \in {NoVal, 1, 2}}

\* the children host code passes to create_element
ChildLists == {<<>>, <<Item("item", 1), Item("item", 2)>>}

InitElement ==
    /\ InitEngine
    /\ InitCgx
    /\ host_props \in HostProps
    /\ built = <<>>

\* host code calls create_element(type, host_props, *children): the call and
\* the node it returned are recorded, and the dict of the caller is what
\* line 47 leaves of it
CreateElement(type, children) ==
    /\ Len(built) < MaxBuilt
    /\ built' = Append(built, [type |-> type, props |-> host_props,
                               children |-> children,
                               node |-> create_element(type, host_props,
                                                       children)])
    /\ host_props' = popped(host_props)
    /\ UNCHANGED <<engine_vars, error, cgx_vars>>

CreateElementAny ==
    \E children \in ChildLists : CreateElement("items", children)

\* host code renders the node it built last
RenderBuilt == built # <<>> /\ Render(built[Len(built)].node, None)

NextElement == CreateElementAny \/ RenderBuilt \/ WorkLoopAny

SpecElement == InitElement /\ [][NextElement]_vars

\* renders of trees two and three levels deep
RenderWalk == \E element \in {ElemNested, ElemCounter} : Render(element, None)

NextWalk == RenderWalk \/ WorkLoopAny

SpecWalk == Init /\ [][NextWalk]_vars

\* renders of lists that match, differ in type, shrink and empty
RenderReconcile ==
    \E element \in {ElemABC, ElemXB, ElemEmpty} : Render(element, None)

NextReconcile == RenderReconcile \/ WorkLoopAny

SpecReconcile == Init /\ [][NextReconcile]_vars

\* load(path): the module of the component is executed, which defines
\* _lookup with a new, empty cache
LoadComponent ==
    /\ lookup_cache' = [name \in TemplateNames |-> ""]
    /\ looked_up' = [name |-> "", found |-> {}, place |-> ""]
    /\ error' = ""
    /\ UNCHANGED <<engine_vars, host_vars, template, rendering>>

\* render of a component evaluates an expression mentioning name, while the
\* component and its module hold the name in the places found
Lookup(name, found) ==
    /\ lookup_cache' = lookup(lookup_cache, name, found).cache
    /\ error' = lookup(lookup_cache, name, found).error
    /\ looked_up' = [name |-> name, found |-> found,
                     place |-> lookup(lookup_cache, name, found).place]
    /\ UNCHANGED <<engine_vars, host_vars, template, rendering>>

LookupAny ==
    \E name \in TemplateNames,
       found \in SUBSET {Places[i] : i \in 1..Len(Places)} :
          Lookup(name, found)

NextLookup == LoadComponent \/ LookupAny

SpecLookup == Init /\ [][NextLookup]_vars

\* a template node with any well-formed children
InitTemplate ==
    /\ InitEngine
    /\ host_props = EmptyProps
    /\ built = <<>>
    /\ lookup_cache = [name \in TemplateNames |-> ""]
    /\ looked_up = [name |-> "", found |-> {}, place |-> ""]
    /\ template \in {nodes \in Templates(MaxNodes) : well_formed(nodes)}
    /\ rendering = <<>>

\* render of the compiled template while the directive expressions have
\* the truth values given
RenderTemplate(values) ==
    /\ rendering' = <<[values |-> values,
                       children |-> render_children(template, values)]>>
    /\ UNCHANGED <<engine_vars, error, host_vars, lookup_cache, looked_up,
                   template>>

RenderTemplateAny ==
    \E values \in [1..Len(template) -> BOOLEAN] : RenderTemplate(values)

NextTemplate == RenderTemplateAny

SpecTemplate == InitTemplate /\ [][NextTemplate]_vars

\* renders of trees with a component at the top, a component inside a
\* list, and no component
RenderTree ==
    \E element \in {ElemCounter, ElemBoxed, ElemA} : Render(element, None)

NextTree == RenderTree \/ WorkLoopAny

SpecTree == Init /\ [][NextTree]_vars

\* renders of one widget whose props change from render to render
RenderWidget == \E element \in WidgetElements : Render(element, None)

NextProps == RenderWidget \/ WorkLoopAny

SpecProps == Init /\ [][NextProps]_vars

NextHost == RenderHost \/ WorkLoopAny

SpecHost == Init /\ [][NextHost]_vars

----------------------------------------------------------------------------
(* Reading the fiber trees *)

\* the fibers reached from a fiber over child and sibling links
RECURSIVE subtree(_, _)
subtree(fs, fiber) ==
    IF fiber = None THEN {}
    ELSE {fiber} \cup subtree(fs, fs[fiber].child)
                 \cup subtree(fs, fs[fiber].sibling)

\* the generation rooted at root
generation(fs, root) ==
    IF root = None THEN {} ELSE {root} \cup subtree(fs, fs[root].child)

\* the sibling chain starting at a fiber
RECURSIVE chain(_, _)
chain(fs, fiber) ==
    IF fiber = None THEN <<>> ELSE <<fiber>> \o chain(fs, fs[fiber].sibling)

\* the child fibers of a fiber, in sibling order
child_fibers(fs, fiber) == chain(fs, fs[fiber].child)

\* the generation started last: the one in flight, else the committed one
latest_root == IF wip_root # None THEN wip_root ELSE current_root

\* the last root fiber added to the arena
last_root(fs) ==
    IF \E i \in 1..Len(fs) : fs[i].type = RootType
    THEN CHOOSE i \in 1..Len(fs) :
            /\ fs[i].type = RootType
            /\ \A j \in (i + 1)..Len(fs) : fs[j].type # RootType
    ELSE None

Count(seq, x) == Cardinality({i \in 1..Len(seq) : seq[i] = x})

----------------------------------------------------------------------------
(* C1 *)

\* C1: the committed generation has been traversed completely: every fiber
\* reachable from the current root has been processed by
\* perform_unit_of_work, whatever the slices, render requests and watcher
\* notifications that preceded the commit.
C1_CommittedGenerationFullyProcessed ==
    generation(fibers, current_root) \subseteq processed

\* a generation committed after an earlier request, by a slice run past its
\* deadline
C1_Witness ==
    /\ current_root # None
    /\ wip_root = None
    /\ requests >= 2
    /\ expired
    /\ Cardinality(generation(fibers, current_root)) >= 3

----------------------------------------------------------------------------
(* C2 *)

\* a render call or a watcher notification has been handled
RequestStep == requests' # requests

\* a generation has been committed
CommitStep == current_root' # current_root

\* the request replaced whatever was in flight by a fresh generation, which
\* is scheduled
StartsFreshGeneration ==
    /\ wip_root' > Len(fibers)
    /\ wip_root' = last_root(fibers')
    /\ next_unit_of_work' = wip_root'
    /\ deletions' = <<>>
    /\ qt_timer'

\* the commit is the commit of the generation the last request started
CommitsLastStarted ==
    /\ current_root' = last_root(fibers)
    /\ wip_root' = None

\* C2: every render request and every watcher notification replaces the
\* in-flight generation by a fresh one, and a commit is always the commit of
\* the generation started by the last request, never of a superseded one.
C2_RequestsCoalesce ==
    [][/\ RequestStep => StartsFreshGeneration
       /\ CommitStep => CommitsLastStarted]_vars

----------------------------------------------------------------------------
(* C3 *)

\* the effect tag reconcile_children gave a fiber when it created it
created_tag(f) ==
    IF f.type = RootType THEN "NONE"
    ELSE IF f.alternate # None THEN "UPDATE" ELSE "PLACEMENT"

\* the arena as it would be at the commit of root had no superseded
\* generation touched the previous generation: a fiber of the previous
\* generation keeps the tag it was created with unless the committed
\* generation itself deleted it
untouched(fs, root, dels) ==
    LET previous == generation(fs, fs[root].alternate)
    IN [i \in 1..Len(fs) |->
          IF i \in previous /\ ~InSeq(dels, i)
          THEN [fs[i] EXCEPT !.effect_tag = created_tag(fs[i])]
          ELSE fs[i]]

\* the calls the commit of root makes on the arena fs
commit_calls(fs, root, dels) ==
    commit_deletions(fs, dels) \o commit_work(fs, fs[root].child)

\* the latest generation has been committed and nothing started since
Committed == current_root # None /\ wip_root = None

\* the fibers of the committed tree that hold a host object
host_fibers == {i \in generation(fibers, current_root) : fibers[i].dom # None}

\* C3: the Renderer Port calls of a commit are those it would make had the
\* generations superseded before it never been started, and every fiber the
\* committed generation keeps stays attached to the host tree.
C3_SupersededLeavesNoTrace ==
    Committed =>
      /\ calls = commit_calls(untouched(fibers, current_root, deletions),
                              current_root, deletions)
      /\ \A i \in host_fibers \ {current_root} :
            doms[fibers[i].dom].parent # None

----------------------------------------------------------------------------
(* C4 - C9 *)

\* the fibers of the latest generation whose children have been reconciled
\* against a previous fiber
reconciled ==
    {i \in generation(fibers, latest_root) \cap processed :
        fibers[i].alternate # None}

\* the reconciled fibers whose declared children are their element list
reconciled_hosts == {i \in reconciled : fibers[i].type \notin ComponentTypes}

\* elements are siblings of one type with unique keys
keyed_list(elements) ==
    /\ \A i \in 1..Len(elements) : elements[i].key # None
    /\ \A i, j \in 1..Len(elements) :
          /\ elements[i].type = elements[j].type
          /\ elements[i].key = elements[j].key => i = j

\* C4: when a list of same-type siblings with unique keys has been
\* re-rendered, every element whose key was already present has the host
\* handle its key had before, whatever its new position.
C4_KeyedIdentity ==
    Committed =>
    \A p \in reconciled_hosts :
      LET q == fibers[p].alternate
          new == fibers[p].children
          old == fibers[q].children
      IN keyed_list(new) /\ keyed_list(old) =>
           \A i \in 1..Len(new), j \in 1..Len(old) :
              new[i].key = old[j].key =>
                 fibers[child_fibers(fibers, p)[i]].dom
                    = fibers[child_fibers(fibers, q)[j]].dom

\* the host objects a sibling chain stands for, component fibers being
\* transparent
RECURSIVE host_chain(_, _)
host_chain(fs, fiber) ==
    IF fiber = None THEN <<>>
    ELSE (IF fs[fiber].dom # None THEN <<fs[fiber].dom>>
          ELSE host_chain(fs, fs[fiber].child))
            \o host_chain(fs, fs[fiber].sibling)

\* C5: after a commit the host tree mirrors the committed tree: the
\* children of each host object are the host objects of the child fibers in
\* sibling order, as many as declared, and the attributes are the props.
C5_HostMirrorsCommittedTree ==
    Committed =>
      \A i \in host_fibers :
        /\ doms[fibers[i].dom].children = host_chain(fibers, fibers[i].child)
        /\ Len(child_fibers(fibers, i)) = Len(fibers[i].children)
        /\ \A n \in PropNames :
              is_property(n) => doms[fibers[i].dom].attrs[n] = fibers[i].props[n]

Min(a, b) == IF a < b THEN a ELSE b

\* a host object no other fiber holds
fresh_dom(fiber) ==
    /\ fibers[fiber].dom # None
    /\ \A g \in 1..Len(fibers) : g # fiber => fibers[g].dom # fibers[fiber].dom

\* new replaces old: old is deleted once, new is placed with nothing carried
\* over and, once it has been processed, with a host object of its own
replaces(new, old) ==
    /\ fibers[new].effect_tag = "PLACEMENT"
    /\ fibers[new].alternate = None
    /\ fibers[old].effect_tag = "DELETION"
    /\ Count(deletions, old) = 1
    /\ new \notin processed => fibers[new].dom = None
    /\ (new \in processed /\ fibers[new].type \notin ComponentTypes)
          => fresh_dom(new)

\* the positions at which the element p declares and the previous fiber it
\* is compared with have different types
type_changes(p) ==
    LET new == fibers[p].children
        old == child_fibers(fibers, fibers[p].alternate)
    IN {i \in 1..Min(Len(new), Len(old)) :
          new[i].type # fibers[old[i]].type}

\* C6: a child whose type differs from that of the previous fiber it is
\* compared with is never an Update, whatever its key: the old fiber is on
\* the deletion list exactly once and the new fiber is a Placement with no
\* alternate and a fresh host object.
C6_TypeChangeReplaces ==
    \A p \in reconciled_hosts :
      \A i \in type_changes(p) :
        replaces(child_fibers(fibers, p)[i],
                 child_fibers(fibers, fibers[p].alternate)[i])

\* a type change under the same key has been built, and the new fiber has
\* got its host object
C6_Witness ==
    \E p \in reconciled_hosts :
      \E i \in type_changes(p) :
        /\ fibers[p].children[i].key # None
        /\ fibers[p].children[i].key = fibers[fibers[p].alternate].children[i].key
        /\ child_fibers(fibers, p)[i] \in processed

\* C7: a keyed child is an Update only if a previous sibling has its type
\* and its key, and a child whose key no previous sibling has is a Placement
\* with no host object, no alternate and no hooks carried over.
C7_UpdateOnlyOnSameKey ==
    \A p \in reconciled_hosts :
      LET q == fibers[p].alternate
          new == fibers[p].children
          old == fibers[q].children
          known(i) == \E j \in 1..Len(old) :
                         /\ old[j].key = new[i].key
                         /\ old[j].type = new[i].type
      IN \A i \in 1..Len(new) :
           LET f == child_fibers(fibers, p)[i]
           IN new[i].key # None =>
                /\ fibers[f].effect_tag = "UPDATE" => known(i)
                /\ ~known(i) =>
                     /\ fibers[f].effect_tag = "PLACEMENT"
                     /\ fibers[f].alternate = None
                     /\ f \notin processed =>
                          fibers[f].dom = None /\ fibers[f].hooks = <<>>

\* C8: within one commit no Renderer Port call is issued for a host handle
\* after that handle has been removed; in particular no handle is removed
\* twice.
C8_NoCallAfterRemove ==
    \A i, j \in 1..Len(calls) :
      (i < j /\ calls[i].op = "remove") => calls[j].dom # calls[i].dom

\* C9: in a commit all removals precede every insertion and every attribute
\* or listener update.
C9_RemovalsFirst ==
    \A i, j \in 1..Len(calls) :
      (i < j /\ calls[j].op = "remove") => calls[i].op = "remove"

----------------------------------------------------------------------------
(* C10 *)

\* a started timer has a unit of work to run, so that its firing changes
\* the state and WorkLoopAny is enabled exactly when qt_timer holds
TimerHasWork == qt_timer => next_unit_of_work # None

\* the host loop runs the scheduled continuation: weak fairness of
\* WorkLoopAny, that is WF_vars(WorkLoopAny) with ENABLED <<WorkLoopAny>>_vars
\* written out as qt_timer (see TimerHasWork)
WorkLoopFairness == []<>(~qt_timer) \/ []<><<WorkLoopAny>>_vars

RenderLive == \E element \in LiveElements : Render(element, None)

NextLive == RenderLive \/ StateChangeAny \/ WorkLoopAny

LiveSpec == Init /\ [][NextLive]_vars /\ WorkLoopFairness

\* C10: a work_loop invocation with pending work processes at least one
\* unit, whatever its deadline, and with the continuation run again and
\* again a generation in flight is eventually committed.
C10_WorkLoopProgress ==
    /\ [][(WorkLoopAny /\ next_unit_of_work # None)
             => processed' # processed]_vars
    /\ (wip_root # None) ~> (wip_root = None)

\* a generation of several units committed by a work_loop whose deadline had
\* expired when it was invoked and which ran a unit all the same
C10_Witness ==
    /\ Committed
    /\ expired
    /\ Cardinality(generation(fibers, current_root)) >= 3

----------------------------------------------------------------------------
(* C11 *)

\* the timer's work_loop run again and again, each time with the same budget,
\* until it leaves the timer stopped
RECURSIVE finish(_, _)
finish(m, budget) ==
    IF ~m.qt_timer THEN m ELSE finish(work_loop(m, budget), budget)

\* the while loop of work_loop when the deadline is never reached
RECURSIVE run_all_units(_)
run_all_units(m) ==
    IF m.next_unit_of_work = None \/ m.error # "" THEN m
    ELSE run_all_units(perform_unit_of_work(m, m.next_unit_of_work))

\* one work_loop that runs every remaining unit and does not yield
uninterrupted(m) ==
    LET m1 == run_all_units([m EXCEPT !.qt_timer = FALSE, !.error = ""])
    IN IF m1.error # "" THEN m1 ELSE call_render_callback(commit_when_done(m1))

\* what a run leaves behind, the deadline of its last slice aside
outcome(m) == [m EXCEPT !.expired = FALSE]

\* C11: from any point of a generation in flight, running the remaining
\* units in slices of any length (one unit per slice included) leaves the
\* same committed fiber tree, the same host tree and the same sequence of
\* Renderer Port calls as one uninterrupted run.
C11_YieldPointsDoNotMatter ==
    qt_timer =>
      LET whole == outcome(uninterrupted(Machine))
      IN \A units \in {slice_units(budget) : budget \in 0..MaxBudget} :
            outcome(finish(Machine, units)) = whole

\* a generation over a committed tree, partly built by a slice past its
\* deadline, that needs two more such slices and commits Renderer Port calls
C11_Witness ==
    /\ qt_timer
    /\ expired
    /\ current_root # None
    /\ generation(fibers, wip_root) \cap processed # {}
    /\ work_loop(Machine, 0).qt_timer
    /\ finish(Machine, 0).calls # <<>>
    /\ finish(Machine, 0).current_root = wip_root

----------------------------------------------------------------------------
(* C12 *)

\* the prop of its element in which a component shows what its n-th
\* use_state call returned
hook_prop(type, n) ==
    IF type = "Stepper" /\ n = 2 THEN "content" ELSE "count"

\* the component fibers the step has invoked
invoked ==
    {f \in processed' \ processed : fibers'[f].type \in ComponentTypes}

\* what the n-th use_state call of the invocation of f returned, as the
\* element the component rendered shows it
returned(f, n) ==
    fibers'[fibers'[f].child].props[hook_prop(fibers'[f].type, n)]

\* C12: the n-th use_state call of a component invocation returns the state
\* held by the n-th hook slot of the alternate fiber, whatever its initial
\* argument, and on a fiber without alternate a new state holding the
\* initial value; the cursor has advanced by one per call.
C12_HooksArePositional ==
    [][\A f \in invoked :
         LET hooks == fibers'[f].hooks
             alt == fibers'[f].alternate
             initials == hook_initials(fibers'[f].type)
         IN /\ Len(hooks) = Len(initials)
            /\ (f = wip_fiber') => hook_index' = Len(initials)
            /\ \A n \in 1..Len(hooks) :
                  IF alt # None
                  THEN /\ hooks[n].state = fibers[alt].hooks[n].state
                       /\ returned(f, n) = states[hooks[n].state]
                  ELSE /\ hooks[n].state > Len(states)
                       /\ \A k \in 1..Len(hooks) :
                             hooks[k].state = hooks[n].state => k = n
                       /\ returned(f, n) = initials[n]]_vars

\* a Stepper rendered again after its second state was changed: its second
\* use_state call has returned the changed value, not its argument
C12_Witness ==
    \E f \in processed :
       /\ fibers[f].type = "Stepper"
       /\ fibers[f].alternate # None
       /\ Len(fibers[f].hooks) = 2
       /\ states[fibers[f].hooks[2].state] # hook_initials("Stepper")[2]
       /\ fibers[fibers[f].child].props["content"]
             = states[fibers[f].hooks[2].state]
       /\ states[fibers[f].hooks[1].state] = hook_initials("Stepper")[1]

----------------------------------------------------------------------------
(* C13 *)

\* the component fibers of the committed tree
components == {f \in generation(fibers, current_root) :
                  fibers[f].type \in ComponentTypes}

\* every component of the committed tree is rendered with the values its
\* states hold, and the host object of its element shows them
shows_state ==
    \A f \in components :
       \A n \in 1..Len(fibers[f].hooks) :
          LET child == fibers[fibers[f].child]
              name == hook_prop(fibers[f].type, n)
              value == states[fibers[f].hooks[n].state]
          IN /\ child.props[name] = value
             /\ doms[child.dom].attrs[name] = value

\* a state that existed before the step holds another value after it
StateChanged == \E state \in 1..Len(states) : states'[state] # states[state]

\* C13: a change of a component's state made after a commit schedules one
\* generation; the timer's work_loop commits it, and once, after which
\* nothing is scheduled and the host object shows the new value: the count
\* shown after each of a sequence of changes is the count of changes made.
C13_StateChangeRerenders ==
    /\ [][(StateChanged /\ current_root # None)
             => (wip_root' > Len(fibers) /\ qt_timer')]_vars
    /\ [][CommitStep => (wip_root' = None /\ ~qt_timer')]_vars
    /\ []((Committed /\ fibers[current_root].alternate # None) => shows_state)
    /\ (wip_root # None /\ current_root # None) ~> (Committed /\ shows_state)

\* the third commit in a row for a Counter whose state was changed twice:
\* the host object shows 2, the tree committed before it 1
C13_Witness ==
    /\ Committed
    /\ shows_state
    /\ LET previous == fibers[current_root].alternate
       IN /\ previous # None
          /\ fibers[previous].alternate # None
          /\ \E f \in components :
                /\ fibers[f].type = "Counter"
                /\ states[fibers[f].hooks[1].state] = 2
                /\ fibers[f].alternate # None
                /\ fibers[fibers[fibers[f].alternate].child].props["count"] = 1

----------------------------------------------------------------------------
(* C14 - C16 *)

\* the fibers holding a hook on a state
holders(state) ==
    {f \in 1..Len(fibers) :
        \E n \in 1..Len(fibers[f].hooks) : fibers[f].hooks[n].state = state}

\* the component that held the state has been deleted and the deletion
\* committed: no fiber of the committed tree holds the state any more
orphaned(state) ==
    /\ current_root # None
    /\ holders(state) \cap generation(fibers, current_root) = {}
    /\ \E f \in holders(state) : fibers[f].effect_tag = "DELETION"

\* C14: once the deletion of a component fiber has been committed the
\* watchers of its hooks are cancelled: a change of a state they watched
\* starts no generation and schedules nothing.
C14_DeletedComponentStopsWatching ==
    [][\A state \in 1..Len(states) :
         (orphaned(state) /\ states'[state] # states[state]) =>
            /\ fibers' = fibers
            /\ wip_root' = wip_root
            /\ next_unit_of_work' = next_unit_of_work
            /\ qt_timer' = qt_timer]_vars

\* C15: each hook slot of a component of the committed tree has exactly one
\* live watcher, however often the component has been rendered.
C15_OneWatcherPerHook ==
    Committed =>
      \A f \in components :
         \A n \in 1..Len(fibers[f].hooks) :
            watchers[fibers[f].hooks[n].state] = 1

\* C16: the callback given to render is called only by the work_loop that
\* commits the generation of that render call and leaves no unit of work,
\* and once: when that generation has been committed it has been called
\* exactly once, also after generations that hook watchers started later.
C16_CallbackOncePerRender ==
    [][/\ fired' > fired =>
            /\ fired' = 1
            /\ CommitStep
            /\ wip_root' = None
            /\ next_unit_of_work' = None
       /\ (Committed' /\ render_callback' # None) => fired' = 1]_vars

----------------------------------------------------------------------------
(* C17 *)

\* the root of the generation a fiber was built in
RECURSIVE root_of(_, _)
root_of(fs, fiber) ==
    IF fs[fiber].parent = None THEN fiber ELSE root_of(fs, fs[fiber].parent)

\* the step leaves every host object as it was; the host objects it has
\* created are attached nowhere
HostTreeKept ==
    /\ \A d \in 1..Len(doms) : doms'[d] = doms[d]
    /\ \A d \in (Len(doms) + 1)..Len(doms') : doms'[d].parent = None

\* the step leaves the committed tree as it was: the same root, and fibers
\* with the same content and links
CommittedTreeKept ==
    /\ current_root' = current_root
    /\ \A f \in generation(fibers, current_root) :
          [fibers'[f] EXCEPT !.effect_tag = "NONE"]
             = [fibers[f] EXCEPT !.effect_tag = "NONE"]

\* a component call has raised in a generation started after the commit
\* before the latest one: wip_fiber is the fiber whose call raised
aborted_before_commit ==
    /\ Committed
    /\ wip_fiber # None
    /\ fibers[wip_fiber].type = "Faulty"
    /\ root_of(fibers, wip_fiber) > fibers[current_root].alternate
    /\ root_of(fibers, wip_fiber) < current_root

\* C17: when a component's call raises during a unit, the work loop is left
\* without commit and without rescheduling: no further unit of the
\* generation runs and it is never committed, the committed tree and the
\* host tree are as before the render request, and a later render request
\* builds and commits as if the aborted generation had never been started.
C17_RenderErrorAborts ==
    /\ [][/\ ~CommitStep => (HostTreeKept /\ CommittedTreeKept)
          /\ error' = "TypeError" =>
                (~CommitStep /\ ~qt_timer' /\ wip_root' = wip_root)
          /\ error = "TypeError" =>
                (processed' = processed /\ ~CommitStep)
          /\ CommitStep => current_root' = last_root(fibers)]_vars
    /\ [](aborted_before_commit =>
            /\ calls = commit_calls(
                          untouched(fibers, current_root, deletions),
                          current_root, deletions)
            /\ \A i \in host_fibers \ {current_root} :
                  doms[fibers[i].dom].parent # None)

----------------------------------------------------------------------------
(* C18 *)

\* the sibling chains at a and b describe equal virtual trees: the same
\* types, props and declared children, level by level
RECURSIVE same_tree(_, _, _)
same_tree(fs, a, b) ==
    IF a = None \/ b = None THEN a = b
    ELSE /\ fs[a].type = fs[b].type
         /\ fs[a].props = fs[b].props
         /\ fs[a].children = fs[b].children
         /\ same_tree(fs, fs[a].child, fs[b].child)
         /\ same_tree(fs, fs[a].sibling, fs[b].sibling)

\* the committed tree was rendered from a virtual tree equal to that of the
\* tree committed before it
rendered_again ==
    /\ Committed
    /\ fibers[current_root].alternate # None
    /\ same_tree(fibers, fibers[current_root].child,
                 fibers[fibers[current_root].alternate].child)

\* C18: the commit of a tree rendered from a virtual tree equal to the
\* committed one makes no Renderer Port call, and every fiber keeps the host
\* handle of the fiber it replaces.
C18_RerenderIsIdempotent ==
    rendered_again =>
      /\ calls = <<>>
      /\ \A f \in generation(fibers, current_root) \ {current_root} :
            /\ fibers[f].alternate # None
            /\ fibers[f].dom = fibers[fibers[f].alternate].dom

\* a list of three items with props, rendered and committed twice
C18_Witness ==
    /\ rendered_again
    /\ Cardinality(host_fibers) >= 5
    /\ \E f \in host_fibers : fibers[f].props["content"] # NoVal

----------------------------------------------------------------------------
(* C19 *)

\* the element a root fiber was rendered from
rendered(root) == fibers[root].children[1]

\* the host objects of the child fibers of the fiber rendered for the
\* element of root
handles(root) ==
    LET list == child_fibers(fibers, fibers[root].child)
    IN {fibers[list[i]].dom : i \in 1..Len(list)}

\* the host object of the element of the committed root
list_host == doms[fibers[fibers[current_root].child].dom]

\* the tree committed before the committed one, and the one before that
previous_root == fibers[current_root].alternate
root_before == fibers[previous_root].alternate

\* the children were rendered and committed as [a, b, c], then as []
emptied ==
    /\ Committed
    /\ previous_root # None
    /\ rendered(previous_root) = ElemABC
    /\ rendered(current_root) = ElemEmpty

\* the children were rendered and committed as [a, b, c], as [], and as
\* [a, b, c] again
refilled ==
    /\ Committed
    /\ previous_root # None
    /\ root_before # None
    /\ rendered(root_before) = ElemABC
    /\ rendered(previous_root) = ElemEmpty
    /\ rendered(current_root) = ElemABC

----------------------------------------------------------------------------
(* C20 *)

\* C20: the engine holds one committed generation and one generation in
\* progress at most; the root of the generation in progress is a root fiber
\* of its own whose alternate is the committed root (None before the first
\* commit), and a commit makes the generation in progress the committed one
\* and leaves none in progress.
C20_TwoGenerations ==
    /\ [](wip_root # None =>
             /\ fibers[wip_root].type = RootType
             /\ wip_root # current_root
             /\ fibers[wip_root].alternate = current_root)
    /\ [](current_root # None => fibers[current_root].type = RootType)
    /\ [][CommitStep =>
             /\ wip_root # None
             /\ current_root' = wip_root
             /\ wip_root' = None]_vars

\* a third generation, partly built, over the second committed one
C20_Witness ==
    /\ wip_root # None
    /\ current_root # None
    /\ fibers[current_root].alternate # None
    /\ fibers[wip_root].alternate = current_root
    /\ (generation(fibers, wip_root) \cap processed) \ {wip_root} # {}
    /\ next_unit_of_work # None

----------------------------------------------------------------------------
(* C21 *)

\* the fiber of the widget in the committed tree
widget == fibers[current_root].child

\* a commit has just updated the widget
WidgetUpdated == Committed /\ fibers[widget].effect_tag = "UPDATE"

\* the phase of update_dom a call belongs to
phase(op) ==
    CASE op = "remove_event_handler" -> 1
      [] op = "clear_attribute" -> 2
      [] op = "set_attribute" -> 3
      [] op = "add_event_handler" -> 4
      [] OTHER -> 0

\* the positions of the calls op makes for the prop name
calls_of(op, name) ==
    {i \in 1..Len(calls) : calls[i].op = op /\ calls[i].name = name}

\* C21: the commit of an Update fiber makes its calls on the fiber's host
\* object in four phases, listener removals, property removals, property
\* sets, listener additions: a property is set exactly when its value is new
\* or changed, and with the new value; a prop whose value is unchanged
\* causes no call; a handler that is replaced is removed before its
\* replacement is added.
C21_UpdateInFourPhases ==
    WidgetUpdated =>
      LET prev == fibers[fibers[widget].alternate].props
          next == fibers[widget].props
      IN /\ \A i \in 1..Len(calls) :
               /\ calls[i].dom = fibers[widget].dom
               /\ phase(calls[i].op) > 0
         /\ \A i, j \in 1..Len(calls) :
               i < j => phase(calls[i].op) <= phase(calls[j].op)
         /\ \A key \in PropNames :
               /\ prev[key] = next[key] =>
                     \A i \in 1..Len(calls) : calls[i].name # key
               /\ is_property(key) =>
                     /\ Cardinality(calls_of("set_attribute", key))
                           = IF next[key] # NoVal /\ next[key] # prev[key]
                             THEN 1 ELSE 0
                     /\ \A i \in calls_of("set_attribute", key) :
                           calls[i].val = next[key]
                     /\ Cardinality(calls_of("clear_attribute", key))
                           = IF prev[key] # NoVal /\ next[key] = NoVal
                             THEN 1 ELSE 0
               /\ is_event(key) /\ prev[key] # NoVal /\ next[key] # NoVal
                     /\ prev[key] # next[key] =>
                     \E i, j \in 1..Len(calls) :
                        /\ i < j
                        /\ calls[i] = Call("remove_event_handler",
                                           fibers[widget].dom, None, key,
                                           prev[key])
                        /\ calls[j] = Call("add_event_handler",
                                           fibers[widget].dom, None, key,
                                           next[key])

\* an update that removes a property, changes another, keeps none and
\* replaces the handler: all four phases make a call
C21_Witness ==
    /\ WidgetUpdated
    /\ fibers[fibers[widget].alternate].props = Props(NoVal, 1, 1, 1)
    /\ fibers[widget].props = Props(NoVal, NoVal, 2, 2)
    /\ Len(calls) = 4

----------------------------------------------------------------------------
(* C30 *)

\* the handlers the event props of a props dict call for
handlers_of(props) ==
    {<<event_type(name), props[name]>> :
        name \in {key \in keys_of(props) : is_event(key)}}

\* C30: after the commit of an Update fiber the handlers attached to its
\* host object are exactly those of the event props of the new fiber: the
\* handler of a prop that is gone has been detached, a changed handler has
\* been replaced and an unchanged one is still attached.
C30_ListenersMatchProps ==
    WidgetUpdated =>
      doms[fibers[widget].dom].handlers = handlers_of(fibers[widget].props)

----------------------------------------------------------------------------
(* C22 *)

\* the entries of a props dict other than "key"
remaining(props) ==
    [p \in PropNames |-> IF p = "key" THEN NoVal ELSE props[p]]

\* C22: the node create_element returns has the type it was given, the key
\* props held under "key" at the call, None when props held none, the other
\* entries of props as its props, and the children it was given, in order.
C22_CreateElement ==
    \A i \in 1..Len(built) :
       LET call == built[i]
       IN /\ call.node.type = call.type
          /\ call.node.key = IF "key" \in keys_of(call.props)
                             THEN call.props["key"] ELSE None
          /\ call.node.props = remaining(call.props)
          /\ call.node.children = call.children

\* an element built from a dict with a key, a content and two children
C22_Witness ==
    \E i \in 1..Len(built) :
       /\ built[i].props = Props(2, 1, NoVal, NoVal)
       /\ Len(built[i].children) = 2
       /\ built[i].node.key = 2

----------------------------------------------------------------------------
(* C23 *)

\* C23: no step changes the dict host code holds, so two elements built
\* from it have the same key and the same props.
C23_InputsNotMutated ==
    /\ [][host_props' = host_props]_vars
    /\ [](\A i, j \in 1..Len(built) :
            /\ built[i].node.key = built[j].node.key
            /\ built[i].node.props = built[j].node.props)

----------------------------------------------------------------------------
(* C26 *)

\* the fibers below and to the right of a fiber in pre-order, depth first,
\* left to right
RECURSIVE preorder(_, _)
preorder(fs, fiber) ==
    IF fiber = None THEN <<>>
    ELSE <<fiber>> \o preorder(fs, fs[fiber].child)
                  \o preorder(fs, fs[fiber].sibling)

\* the fibers of the latest generation made so far, in pre-order
walk == <<latest_root>> \o preorder(fibers, fibers[latest_root].child)

\* the number of fibers of the latest generation processed so far
walked == Cardinality({i \in 1..Len(walk) : walk[i] \in processed})

\* C26: at every moment the processed fibers of the latest generation are
\* the first ones of its pre-order, depth first and left to right, and the
\* next unit is the fiber that follows them (the first child, else the own
\* sibling, else the sibling of the nearest ancestor that has one), which has
\* not been processed; after the last fiber there is no next unit and the
\* whole generation has been processed.
C26_PreOrderWalk ==
    latest_root # None /\ error = "" =>
      /\ \A i \in 1..Len(walk) : walk[i] \in processed <=> i <= walked
      /\ \A i, j \in 1..Len(walk) : walk[i] = walk[j] => i = j
      /\ next_unit_of_work = IF walked < Len(walk) THEN walk[walked + 1]
                             ELSE None
      /\ next_unit_of_work \notin processed
      /\ wip_root = None <=> walked = Len(walk)

\* the walk has left a fiber with no child and no sibling and gone up to the
\* sibling of its parent
C26_Witness ==
    /\ wip_root # None
    /\ next_unit_of_work # None
    /\ \E f \in processed :
          /\ fibers[f].child = None /\ fibers[f].sibling = None
          /\ fibers[f].parent # None
          /\ fibers[fibers[f].parent].sibling = next_unit_of_work

----------------------------------------------------------------------------
(* C27 *)

\* the new children of parent that have old_child for alternate
successors(parent, old_child) ==
    {n \in 1..Len(fibers) :
        /\ InSeq(child_fibers(fibers, parent), n)
        /\ fibers[n].alternate = old_child}

\* old_child has been taken over by one Update fiber of parent
taken_over(parent, old_child) ==
    /\ Cardinality(successors(parent, old_child)) = 1
    /\ \A n \in successors(parent, old_child) :
          /\ fibers[n].effect_tag = "UPDATE"
          /\ fibers[n].type = fibers[old_child].type
          /\ fibers[n].dom = fibers[old_child].dom

\* old_child has been deleted by the reconciliation of parent
deleted(parent, old_child) ==
    /\ fibers[old_child].effect_tag = "DELETION"
    /\ Count(deletions, old_child) = 1
    /\ ~InSeq(child_fibers(fibers, parent), old_child)
    /\ successors(parent, old_child) = {}

\* C27: once reconcile_children has run on a fiber, every child of the
\* fiber's alternate either is the alternate of exactly one new child, an
\* Update fiber of the same type holding the same host object, or is tagged
\* DELETION, stands exactly once in the deletion list and is not in the new
\* chain, never both; with no element and old children, all old children
\* are in the deletion list and the fiber has no child.
C27_OldChildrenUpdatedOrDeleted ==
    \A parent \in reconciled_hosts :
       LET old == child_fibers(fibers, fibers[parent].alternate)
       IN /\ \A i \in 1..Len(old) :
                taken_over(parent, old[i]) # deleted(parent, old[i])
          /\ fibers[parent].children = <<>> /\ old # <<>> =>
                /\ fibers[parent].child = None
                /\ \A i \in 1..Len(old) : InSeq(deletions, old[i])

\* a reconciliation that takes over one old child and deletes two
C27_Witness ==
    \E parent \in reconciled_hosts :
       LET old == child_fibers(fibers, fibers[parent].alternate)
       IN /\ Len(old) = 3
          /\ deleted(parent, old[1])
          /\ taken_over(parent, old[2])
          /\ deleted(parent, old[3])

----------------------------------------------------------------------------
(* C28 *)

\* the processed fibers of the latest generation whose declared children
\* are the element list reconcile_children was given
reconciled_lists ==
    {i \in generation(fibers, latest_root) \cap processed :
        fibers[i].type \notin ComponentTypes}

\* C28: once reconcile_children has run on a fiber, the fiber's child and
\* the sibling links after it give as many fibers as there were elements,
\* no fiber twice, the i-th with the type, props and children of the i-th
\* element and the fiber for parent.
C28_ChainFollowsElements ==
    \A parent \in reconciled_lists :
       LET new == child_fibers(fibers, parent)
           elements == fibers[parent].children
       IN /\ Len(new) = Len(elements)
          /\ \A i, j \in 1..Len(new) : new[i] = new[j] => i = j
          /\ \A i \in 1..Len(new) :
                /\ fibers[new[i]].type = elements[i].type
                /\ fibers[new[i]].props = elements[i].props
                /\ fibers[new[i]].children = elements[i].children
                /\ fibers[new[i]].parent = parent

\* two elements reconciled against an old chain of three: a new fiber
\* first, a fiber that took over the second old child after it
C28_Witness ==
    \E parent \in reconciled_lists :
       LET new == child_fibers(fibers, parent)
       IN /\ fibers[parent].alternate # None
          /\ Len(child_fibers(fibers, fibers[parent].alternate)) = 3
          /\ Len(new) = 2
          /\ fibers[new[1]].effect_tag = "PLACEMENT"
          /\ fibers[new[2]].effect_tag = "UPDATE"

----------------------------------------------------------------------------
(* C29 *)

\* one remove call for each entry of a deletion list, in order
RECURSIVE removals(_, _)
removals(fs, dels) ==
    IF dels = <<>> THEN <<>>
    ELSE commit_deletion(fs, Head(dels),
                         fs[dom_parent_fiber(fs, fs[Head(dels)].parent)].dom)
            \o removals(fs, Tail(dels))

\* C29: the calls of a commit are one remove call for each entry of the
\* deletion list followed by the calls of the fibers of the committed
\* generation, and nothing else.
C29_OneRemovePerDeletion ==
    Committed =>
      /\ Len(removals(fibers, deletions)) = Len(deletions)
      /\ calls = removals(fibers, deletions)
                    \o commit_work(fibers, fibers[current_root].child)

----------------------------------------------------------------------------
(* C24 *)

\* C24: loading a component raises nothing, and the lookup of a name that
\* the component holds neither in its props, nor in its state, nor as an
\* attribute, and that the module globals do not hold, raises NameError.
C24_UnknownNameRaisesNameError ==
    /\ looked_up.name = "" => error = ""
    /\ looked_up.name # "" /\ looked_up.found = {} => error = "NameError"

----------------------------------------------------------------------------
(* C25 *)

\* the v-if that starts the run a node with a directive belongs to
run_start(nodes, i) ==
    CHOOSE j \in 1..i :
       /\ nodes[j] = "v-if"
       /\ \A k \in (j + 1)..i : nodes[k] # "v-if"

\* no branch of its run before node i has a truthy condition
none_before(nodes, values, i) ==
    \A j \in run_start(nodes, i)..(i - 1) : ~values[j]

\* node i is to be a child: it has no directive, or it is the first branch
\* of its run with a truthy condition, or the v-else of a run with none
shown(nodes, values, i) ==
    CASE nodes[i] = "" -> TRUE
      [] nodes[i] = "v-if" -> values[i]
      [] nodes[i] = "v-else-if" -> values[i] /\ none_before(nodes, values, i)
      [] nodes[i] = "v-else" -> none_before(nodes, values, i)

\* C25: the children of a rendered template node are, in source order, the
\* nodes without directive and, for each run of a v-if, its v-else-ifs and
\* its v-else, the first branch whose condition is truthy, else the v-else,
\* else nothing, with no None among them.
C25_OneBranchPerRun ==
    \A r \in 1..Len(rendering) :
       rendering[r].children
          = SelectSeq([i \in 1..Len(template) |-> i],
                      LAMBDA i : shown(template, rendering[r].values, i))

----------------------------------------------------------------------------
(* C31 *)

\* the fibers above a fiber, nearest first
RECURSIVE ancestors(_, _)
ancestors(fs, fiber) ==
    IF fs[fiber].parent = None THEN <<>>
    ELSE <<fs[fiber].parent>> \o ancestors(fs, fs[fiber].parent)

\* the nearest fiber above a fiber that holds a host object
host_ancestor(fs, fiber) ==
    LET up == ancestors(fs, fiber)
    IN up[CHOOSE i \in 1..Len(up) :
             /\ fs[up[i]].dom # None
             /\ \A j \in 1..(i - 1) : fs[up[j]].dom = None]

\* the fibers of the committed tree tagged PLACEMENT that hold a host object
placed ==
    {f \in generation(fibers, current_root) :
        fibers[f].effect_tag = "PLACEMENT" /\ fibers[f].dom # None}

\* the positions of the add calls of the latest commit for a host object
adds(dom) == {i \in 1..Len(calls) : calls[i].op = "add" /\ calls[i].dom = dom}

\* C31: a commit makes exactly one add call for the host object of every
\* Placement fiber of the tree it commits, under the host object of the
\* nearest fiber above it that holds one, after the add call of every placed
\* fiber above it, and the host object ends as a child of that parent.
C31_PlacementUnderNearestHost ==
    Committed =>
      \A f \in placed :
         LET dom == fibers[f].dom
             dom_parent == fibers[host_ancestor(fibers, f)].dom
         IN /\ Cardinality(adds(dom)) = 1
            /\ \A i \in adds(dom) : calls[i].parent = dom_parent
            /\ doms[dom].parent = dom_parent
            /\ Count(doms[dom_parent].children, dom) = 1
            /\ \A p \in placed :
                  InSeq(ancestors(fibers, f), p) =>
                     \A i \in adds(fibers[p].dom), j \in adds(dom) : i < j

\* a list and, under a component inside it, a host object, both placed by
\* one commit over a committed tree
C31_Witness ==
    /\ Committed
    /\ fibers[current_root].alternate # None
    /\ \E f, p \in placed :
          /\ host_ancestor(fibers, f) = p
          /\ fibers[f].parent # p

----------------------------------------------------------------------------
(* C32 *)

\* the first fiber holding a host object going down the first-child links
RECURSIVE first_host(_, _)
first_host(fs, fiber) ==
    IF fs[fiber].dom # None THEN fiber ELSE first_host(fs, fs[fiber].child)

\* the component fibers the latest commit deleted
deleted_components ==
    {d \in 1..Len(fibers) : InSeq(deletions, d) /\ fibers[d].dom = None}

\* the host objects attached to the host tree: those reached from the
\* container over children
RECURSIVE attached_below(_, _)
attached_below(ds, dom) ==
    {dom} \cup UNION {attached_below(ds, ds[dom].children[i]) :
                        i \in 1..Len(ds[dom].children)}

\* C32: the commit of the deletion of a component fiber calls remove for
\* the host object of the first fiber below it that holds one, on the host
\* object of the nearest fiber above it that holds one, and after the
\* commit no host object of a fiber below the deleted fiber is attached.
C32_ComponentDeletionRemovesHost ==
    Committed =>
      \A d \in deleted_components :
         /\ \E i \in 1..Len(calls) :
               calls[i] = Call("remove", fibers[first_host(fibers, d)].dom,
                               fibers[host_ancestor(fibers, d)].dom, "", NoVal)
         /\ \A f \in subtree(fibers, fibers[d].child) :
               fibers[f].dom # None =>
                  fibers[f].dom \notin attached_below(doms, Container)

----------------------------------------------------------------------------
(* C33 *)

\* C33: no step changes a field of a fiber of the committed tree: later
\* generations read these fibers and write only their own.
C33_CommittedFibersNotWritten ==
    [][\A f \in generation(fibers, current_root) : fibers'[f] = fibers[f]]_vars

----------------------------------------------------------------------------
(* C34 *)

\* the root element and the container of the generation in flight
requested(fs, root) == [children |-> fs[root].children, dom |-> fs[root].dom]

\* C34: a watcher notification that arrives while a generation is in
\* flight leaves a generation in flight for the same root element and the
\* same container, so the generation committed next is the one of the
\* latest render call.
C34_NotificationKeepsRequest ==
    [][StateChangeAny /\ wip_root # None =>
          /\ wip_root' # None
          /\ requested(fibers', wip_root') = requested(fibers, wip_root)]_vars

----------------------------------------------------------------------------
(* C35 *)

\* C35: a step that commits nothing leaves every host object there is as
\* it was and makes no Renderer Port call of a commit; the host objects it
\* creates are attached to nothing.
C35_HostTreeChangesOnlyInCommit ==
    [][current_root' = current_root =>
          /\ calls' = calls
          /\ Len(doms') >= Len(doms)
          /\ \A dom \in 1..Len(doms) : doms'[dom] = doms[dom]
          /\ \A dom \in (Len(doms) + 1)..Len(doms') :
                /\ doms'[dom].parent = None
                /\ doms'[dom].children = <<>>]_vars

\* a generation over a committed tree that has failed after it created a
\* host object, which is attached to nothing
C35_Witness ==
    /\ error # ""
    /\ current_root # None
    /\ wip_root # None
    /\ \E f \in generation(fibers, wip_root) :
          /\ fibers[f].effect_tag = "PLACEMENT"
          /\ fibers[f].dom # None
          /\ doms[fibers[f].dom].parent = None
          /\ fibers[f].dom \notin attached_below(doms, Container)

----------------------------------------------------------------------------
(* C36 *)

\* C36: the timeout signal of the timer never has more than one slot
\* connected, and exactly one while the timer is started: a firing of the
\* timer runs work_loop once.
C36_OneContinuation ==
    /\ connections <= 1
    /\ qt_timer => connections = 1

\* a second request made before the first commit, that is while the
\* continuation of the first was pending
C36_Witness ==
    /\ qt_timer
    /\ requests >= 2
    /\ current_root = None
    /\ error = ""
    /\ connections = 1

----------------------------------------------------------------------------
(* C37 *)

\* C37: a watcher notification that arrives before the first commit raises
\* nothing and leaves a generation in flight with its continuation scheduled.
C37_NotificationBeforeFirstCommit ==
    [][StateChangeAny /\ current_root = None
          => /\ error' = ""
             /\ wip_root' # None
             /\ qt_timer']_vars

----------------------------------------------------------------------------
(* C38 *)

\* the fibers reached from fiber by following alternate links, fiber
\* included
RECURSIVE alternates(_, _)
alternates(fs, fiber) ==
    IF fiber = None THEN 0
    ELSE 1 + alternates(fs, fs[fiber].alternate)

\* C38: the alternate links of a fiber of the current tree reach at most one
\* earlier generation.
C38_TwoGenerationsReachable ==
    current_root # None =>
        \A f \in generation(fibers, current_root) :
            alternates(fibers, f) <= 2

----------------------------------------------------------------------------
(* C39 *)

\* the calls cs are the first calls of the calls all, and not all of them
proper_prefix(cs, all) ==
    /\ Len(cs) < Len(all)
    /\ cs = SubSeq(all, 1, Len(cs))

\* C39: a work_loop left by the exception of a Renderer Port call of its
\* commit has made the first calls of the commit and no others, and their
\* effect on the host tree stays; the callback is not called, the generation
\* does not become the current one and stays the generation in flight, and
\* no continuation is scheduled.
C39_FailedCommitNotRolledBack ==
    [][error' = "RendererError"
          => /\ wip_root' = wip_root
             /\ wip_root' # None
             /\ proper_prefix(calls', commit_calls(fibers', wip_root',
                                                   deletions'))
             /\ \E budget \in 0..MaxBudget :
                   LET m1 == units_run(Machine, budget)
                   IN /\ reaches_commit(m1)
                      /\ doms' = ApplyCalls(m1.doms, calls')
             /\ fired' = fired
             /\ current_root' = current_root
             /\ next_unit_of_work' = None
             /\ ~qt_timer']_vars

\* the second call of a commit that follows an earlier commit raised: one
\* call of the failed commit has been made
C39_Witness ==
    /\ error = "RendererError"
    /\ current_root # None
    /\ wip_root # None
    /\ wip_root # current_root
    /\ Len(calls) = 1
    /\ render_callback # None
    /\ fired = 0

----------------------------------------------------------------------------
(* C40 *)

\* C40: the value a lookup returns is read from the first of props, state,
\* attributes and globals that holds the name for the component of the call,
\* and the lookup raises NameError when none holds it, whatever was looked up
\* before.
C40_CachedLookupIsUncachedLookup ==
    looked_up.name # "" =>
        /\ looked_up.place = lookup_method(looked_up.found)
        /\ error = IF looked_up.found = {} THEN "NameError" ELSE ""

====
